---- MODULE Spec2Model ----
(***************************************************************************)
(* Model of scripts/template_checker/template_checker.py: discovery of     *)
(* template files, resolution of their parent files, value normalisation   *)
(* of lines and the set-based structural diff.                             *)
(*                                                                         *)
(* Text is a sequence of symbols.  A symbol is one character, or a block   *)
(* of characters that the regular expressions of the program only ever     *)
(* read as a unit ("_KEY", "<VALUE>", "template", ...).                    *)
(***************************************************************************)
EXTENDS Integers, Sequences, FiniteSets, TLC

VARIABLES
    pc,                 \* position of the operation under study
    line,               \* normalize_line: the raw input line
    once,               \* normalize_line(line)
    twice,              \* normalize_line(normalize_line(line))
    template_lines,     \* find_missing_lines: f.readlines() of the template
    parent_lines,       \* find_missing_lines: f.readlines() of the parent
    missing_lines,      \* find_missing_lines: the returned list
    fs,                 \* the directory tree under base_dir: path -> kind
    EXCLUDE_PATTERNS,   \* the module-level exclusion list
    args_exclude,       \* args.exclude of the run in progress
    runs,               \* number of main() invocations so far in this process
    template_files,     \* TemplateChecker.template_files
    parent_files,       \* TemplateChecker.parent_files (insertion-ordered dict)
    differences,        \* TemplateChecker.differences (insertion-ordered dict)
    report              \* the value returned by run()

vars ==
    <<pc, line, once, twice, template_lines, parent_lines, missing_lines,
      fs, EXCLUDE_PATTERNS, args_exclude, runs, template_files, parent_files,
      differences, report>>

(***************************************************************************)
(* Character classes of the regular expressions                            *)
(***************************************************************************)
QUOTE ==
    "\""

\* \s
Space ==
    {" "}

\* \d
Digit ==
    {"1"}

\* [A-Z0-9_]
EnvKeyChar ==
    {"A", "B", "1", "_SECRET", "_KEY", "_TOKEN", "_PASSWORD"}

\* [a-zA-Z0-9_]
WordChar ==
    EnvKeyChar \cup {"a"}

Max(S) ==
    CHOOSE m \in S : \A x \in S : x <= m

\* Index of the first symbol at or after i that is not in Class (Len(s)+1 if
\* none): where a greedy Class* started at i stops.
SkipClass(s, i, Class) ==
    CHOOSE j \in i..(Len(s) + 1) :
        /\ \A k \in i..(j - 1) : s[k] \in Class
        /\ (j = Len(s) + 1 \/ s[j] \notin Class)

\* str.rstrip()
rstrip(s) ==
    LET n == CHOOSE j \in 0..Len(s) :
                 /\ \A k \in (j + 1)..Len(s) : s[k] \in Space
                 /\ (j = 0 \/ s[j] \notin Space)
    IN  SubSeq(s, 1, n)

\* str.strip()
strip(s) ==
    LET t == rstrip(s)
    IN  SubSeq(t, SkipClass(t, 1, Space), Len(t))

(***************************************************************************)
(* normalize_line: the substitutions of lines 165-178, in order            *)
(***************************************************************************)
\* re.sub(r'^([A-Z0-9_]+)=.*$', r'\1=<VALUE>', line)
sub_env(s) ==
    LET k == SkipClass(s, 1, EnvKeyChar) - 1
    IN  IF k >= 1 /\ k + 1 <= Len(s) /\ s[k + 1] = "="
        THEN SubSeq(s, 1, k + 1) \o <<"<VALUE>">>
        ELSE s

\* re.sub(r'^(.*<suffix>=).*$', r'\1<placeholder>', line): the greedy .* keeps
\* everything up to the last "<suffix>=".
sub_suffix(s, suffix, placeholder) ==
    LET J == {j \in 1..(Len(s) - 1) : s[j] = suffix /\ s[j + 1] = "="}
    IN  IF J = {}
        THEN s
        ELSE SubSeq(s, 1, Max(J) + 1) \o <<placeholder>>

\* Index just after a match of ^\s*"?[a-zA-Z0-9_]+"?\s*:\s* , or 0 when the
\* line does not start that way.
KeyValuePrefix(s) ==
    LET a == SkipClass(s, 1, Space)
        b == IF a <= Len(s) /\ s[a] = QUOTE THEN a + 1 ELSE a
        c == SkipClass(s, b, WordChar)
        d == IF c <= Len(s) /\ s[c] = QUOTE THEN c + 1 ELSE c
        e == SkipClass(s, d, Space)
    IN  IF c > b /\ e <= Len(s) /\ s[e] = ":"
        THEN SkipClass(s, e + 1, Space)
        ELSE 0

\* re.sub(r'(^\s*"?[a-zA-Z0-9_]+"?\s*:\s*)"[^"]*"', r'\1"<VALUE>"', line)
sub_quoted(s) ==
    LET p == KeyValuePrefix(s)
        C == IF p = 0 THEN {} ELSE {q \in (p + 1)..Len(s) : s[q] = QUOTE}
    IN  IF p # 0 /\ p <= Len(s) /\ s[p] = QUOTE /\ C # {}
        THEN LET q == CHOOSE x \in C : \A y \in C : x <= y
             IN  SubSeq(s, 1, p - 1) \o <<QUOTE, "<VALUE>", QUOTE>>
                     \o SubSeq(s, q + 1, Len(s))
        ELSE s

\* re.sub(r'(^\s*"?[a-zA-Z0-9_]+"?\s*:\s*)\d+', r'\1<NUMBER>', line)
sub_number(s) ==
    LET p == KeyValuePrefix(s)
    IN  IF p # 0 /\ p <= Len(s) /\ s[p] \in Digit
        THEN SubSeq(s, 1, p - 1) \o <<"<NUMBER>">>
                 \o SubSeq(s, SkipClass(s, p, Digit), Len(s))
        ELSE s

\* re.sub(r'(^\s*-\s*"[^"]*=)[^"]*"$', r'\1<VALUE>"', line)
sub_compose(s) ==
    LET a == SkipClass(s, 1, Space)
        b == IF a <= Len(s) THEN SkipClass(s, a + 1, Space) ELSE 0
        n == Len(s)
        E == IF b = 0 THEN {} ELSE {e \in (b + 1)..(n - 1) : s[e] = "="}
    IN  IF /\ a <= n /\ s[a] = "-"
           /\ b < n /\ s[b] = QUOTE /\ s[n] = QUOTE
           /\ \A k \in (b + 1)..(n - 1) : s[k] # QUOTE
           /\ E # {}
        THEN SubSeq(s, 1, Max(E)) \o <<"<VALUE>", QUOTE>>
        ELSE s

\* The four secret-suffix substitutions of lines 168-171.
sub_secrets(s) ==
    sub_suffix(sub_suffix(sub_suffix(sub_suffix(s,
        "_SECRET", "<SECRET>"), "_KEY", "<KEY>"), "_TOKEN", "<TOKEN>"),
        "_PASSWORD", "<PASSWORD>")

\* Mutant: the generic environment rule runs after the secret rules.
normalize_line_generic_last(l) ==
    sub_compose(sub_number(sub_quoted(sub_env(sub_secrets(strip(l))))))

\* Mutant: whitespace is trimmed after the substitutions instead of before.
normalize_line_strip_last(l) ==
    strip(sub_compose(sub_number(sub_quoted(sub_secrets(sub_env(l))))))

normalize_line(l) ==
    sub_compose(sub_number(sub_quoted(sub_secrets(sub_env(strip(l))))))

(***************************************************************************)
(* Specification of normalize_line on its own: every line of at most       *)
(* MaxLineLen symbols, normalised once and then once more.                 *)
(***************************************************************************)
MaxLineLen ==
    5

\* One symbol per way the expressions tell characters apart: a lower-case
\* letter, a digit, the four secret suffixes (upper-case key characters),
\* and the punctuation the rules look for.
LineAlphabet ==
    {"a", "1", "=", ":", QUOTE, "-", " ", "_SECRET", "_KEY", "_TOKEN",
     "_PASSWORD"}

\* Values of the variables an operation does not touch.
NoDiff ==
    /\ template_lines = <<>>
    /\ parent_lines = <<>>
    /\ missing_lines = <<>>

NoRun ==
    /\ fs = <<>>
    /\ EXCLUDE_PATTERNS = <<>>
    /\ args_exclude = <<>>
    /\ runs = 0
    /\ template_files = <<>>
    /\ parent_files = <<>>
    /\ differences = <<>>
    /\ report = <<>>

NoNormalize ==
    /\ line = <<>>
    /\ once = <<>>
    /\ twice = <<>>

diffVars ==
    <<template_lines, parent_lines, missing_lines>>

runVars ==
    <<fs, EXCLUDE_PATTERNS, args_exclude, runs, template_files, parent_files,
      differences, report>>

InitNormalize ==
    /\ pc = "raw"
    /\ \E n \in 0..MaxLineLen : line \in [1..n -> LineAlphabet]
    /\ once = <<>>
    /\ twice = <<>>
    /\ NoDiff
    /\ NoRun

NormalizeLine ==
    /\ pc = "raw"
    /\ once' = normalize_line(line)
    /\ pc' = "once"
    /\ UNCHANGED <<line, twice, diffVars, runVars>>

NormalizeAgain ==
    /\ pc = "once"
    /\ twice' = normalize_line(once)
    /\ pc' = "twice"
    /\ UNCHANGED <<line, once, diffVars, runVars>>

NextNormalize ==
    \/ NormalizeLine
    \/ NormalizeAgain

SpecNormalize ==
    InitNormalize /\ [][NextNormalize]_vars

(***************************************************************************)
(* The filesystem: each path is absent, a regular file, a regular file     *)
(* whose open() raises ("locked"), or a directory.                         *)
(***************************************************************************)
FileKinds ==
    {"absent", "file", "locked", "dir"}

\* os.path.exists
exists(kind) ==
    kind # "absent"

\* os.path.isfile
isfile(kind) ==
    kind \in {"file", "locked"}

(***************************************************************************)
(* find_missing_lines                                                      *)
(***************************************************************************)
Range(f) ==
    {f[i] : i \in DOMAIN f}

\* line.strip() and not line.strip().startswith('#')
IsStructural(l) ==
    strip(l) # <<>> /\ strip(l)[1] # "#"

\* The loops of lines 207-213: the normalised form of each kept line.
NormalizedLines(lines) ==
    LET kept == SelectSeq(lines, IsStructural)
    IN  [i \in 1..Len(kept) |-> normalize_line(kept[i])]

\* Mutant: positional comparison of the two normalised sequences.
compare_lines_positional(tl, pl) ==
    LET nt == NormalizedLines(tl)
        np == NormalizedLines(pl)
        idx == SelectSeq([i \in 1..Len(np) |-> i],
                         LAMBDA i : i > Len(nt) \/ nt[i] # np[i])
    IN  [k \in 1..Len(idx) |-> rstrip(pl[idx[k]])]

\* Lines 203-228: i enumerates normalized_parent_lines, and parent_lines[i]
\* is read at that same index.
compare_lines(tl, pl) ==
    LET normalized_template_lines == NormalizedLines(tl)
        normalized_parent_lines == NormalizedLines(pl)
        template_line_set == Range(normalized_template_lines)
        idx == SelectSeq([i \in 1..Len(normalized_parent_lines) |-> i],
                   LAMBDA i : /\ normalized_parent_lines[i] \notin template_line_set
                              /\ i <= Len(pl))
    IN  [k \in 1..Len(idx) |-> rstrip(pl[idx[k]])]

\* Lines 187-231: the isfile guards, the reads (open() of a locked file
\* raises and the handler returns []), then the comparison.
find_missing_lines(template_kind, parent_kind, tl, pl) ==
    IF ~isfile(template_kind) THEN <<>>
    ELSE IF ~isfile(parent_kind) THEN <<>>
    ELSE IF template_kind = "locked" \/ parent_kind = "locked" THEN <<>>
    ELSE compare_lines(tl, pl)

(***************************************************************************)
(* Specification of find_missing_lines on its own: a template and a parent *)
(* of any kind, holding any lines of DiffLines.                            *)
(***************************************************************************)
MaxTemplateLines ==
    2

MaxParentLines ==
    3

DiffLines ==
    { <<>>,
      <<"#", "B", "=", "1">>,
      <<"A", "=", "1">>,
      <<" ", "A", "=", "a", " ">>,
      <<"B", "=", "1">> }

InitDiff ==
    /\ pc = "read"
    /\ fs \in [{"template", "parent"} -> FileKinds]
    /\ \E n \in 0..MaxTemplateLines : template_lines \in [1..n -> DiffLines]
    /\ \E n \in 0..MaxParentLines : parent_lines \in [1..n -> DiffLines]
    /\ missing_lines = <<>>
    /\ NoNormalize
    /\ EXCLUDE_PATTERNS = <<>>
    /\ args_exclude = <<>>
    /\ runs = 0
    /\ template_files = <<>>
    /\ parent_files = <<>>
    /\ differences = <<>>
    /\ report = <<>>

FindMissingLines ==
    /\ pc = "read"
    /\ missing_lines' = find_missing_lines(fs["template"], fs["parent"],
                                           template_lines, parent_lines)
    /\ pc' = "compared"
    /\ UNCHANGED <<line, once, twice, template_lines, parent_lines, runVars>>

NextDiff ==
    FindMissingLines

SpecDiff ==
    InitDiff /\ [][NextDiff]_vars

Readable ==
    fs["template"] = "file" /\ fs["parent"] = "file"

(***************************************************************************)
(* Paths and glob patterns are symbol sequences too: "." and "/" are       *)
(* single characters, the name parts between them are blocks, and "*" in   *)
(* a pattern is the wildcard.                                              *)
(***************************************************************************)
TEMPLATE_PATTERNS ==
    << <<"*", ".", "template", ".", "*">>,
       <<"*", ".", "template">>,
       <<"*", ".", "env", ".", "template">>,
       <<"*", "/", "*", ".", "template", ".", "*">>,
       <<"*", "/", "*", ".", "template">>,
       <<"*", "/", "*", ".", "env", ".", "template">> >>

\* The module-level EXCLUDE_PATTERNS as the module is loaded.
DefaultExcludePatterns ==
    << <<"*", "*", "/", "config", ".", "template", ".", "js">>,
       <<"*", "*", "/", "mirotalk", "/", "app", "/", "src", "/",
         "config", ".", "template", ".", "js">>,
       <<"*", "*", "/", "mirotalk_backup", "/", "app", "/", "src", "/",
         "config", ".", "template", ".", "js">>,
       <<"*", "*", "/", ".", "git", "*", "/", "*", "*">> >>

\* fnmatch.fnmatch(name, pat): "*" matches any run of characters, "/"
\* included; every other symbol matches itself; the whole name must match.
RECURSIVE fnmatch(_, _)
fnmatch(name, pat) ==
    IF pat = <<>> THEN name = <<>>
    ELSE IF Head(pat) = "*"
         THEN \/ fnmatch(name, Tail(pat))
              \/ (name # <<>> /\ fnmatch(Tail(name), pat))
         ELSE /\ name # <<>>
              /\ Head(name) = Head(pat)
              /\ fnmatch(Tail(name), Tail(pat))

is_excluded_file(file_path, patterns) ==
    \E i \in DOMAIN patterns : fnmatch(file_path, patterns[i])

(***************************************************************************)
(* The tree under base_dir                                                 *)
(***************************************************************************)
AppTemplateJsonTemplate ==
    <<"app", ".", "template", ".", "json", ".", "template">>

AppJsonTemplate ==
    <<"app", ".", "json", ".", "template">>

AppTemplateJson ==
    <<"app", ".", "template", ".", "json">>

AppJson ==
    <<"app", ".", "json">>

AppEnvTemplate ==
    <<"app", ".", "env", ".", "template">>

AppEnv ==
    <<"app", ".", "env">>

DConfigTemplateJs ==
    <<"d", "/", "config", ".", "template", ".", "js">>

\* The order in which a directory listing returns its entries.
Listing ==
    <<AppTemplateJsonTemplate, AppJsonTemplate, AppTemplateJson, AppJson,
      AppEnvTemplate, AppEnv, DConfigTemplateJs>>

Paths ==
    Range(Listing)

\* What f.readlines() returns for each file, without the line terminators.
Content(p) ==
    CASE p = AppTemplateJsonTemplate -> << >>
      [] p = AppJsonTemplate -> << <<"A", "=", "1">> >>
      [] p = AppTemplateJson -> << <<"#", "B", "=", "1">>, <<"A", "=", "a">> >>
      [] p = AppJson         -> << <<>>, <<"A", "=", "1">>, <<"B", "=", "1">> >>
      [] p = AppEnvTemplate  -> << <<"A", "_KEY", "=", "a">> >>
      [] p = AppEnv          -> << <<"A", "_KEY", "=", "1", " ">> >>
      [] OTHER               -> << <<"a", ":", "1">> >>

KindOf(f, p) ==
    IF p \in DOMAIN f THEN f[p] ELSE "absent"

\* Index of the last "/" of p, 0 when there is none.
LastSlash(p) ==
    Max({0} \cup {i \in 1..Len(p) : p[i] = "/"})

\* os.path.dirname / os.path.basename of a relative path.
DirName(p) ==
    SubSeq(p, 1, LastSlash(p) - 1)

BaseName(p) ==
    SubSeq(p, LastSlash(p) + 1, Len(p))

RECURSIVE Flatten(_)
Flatten(ss) ==
    IF ss = <<>> THEN <<>> ELSE Head(ss) \o Flatten(Tail(ss))

\* os.walk(base_dir), top-down: base_dir itself, then each directory below
\* it; `files` of a directory are its entries that are not directories.
WalkRoots(f) ==
    LET dirs == [i \in 1..Len(Listing) |-> DirName(Listing[i])]
        idx == SelectSeq([i \in 1..Len(Listing) |-> i],
                   LAMBDA i : /\ exists(f[Listing[i]])
                              /\ dirs[i] # <<>>
                              /\ \A j \in 1..(i - 1) :
                                     ~(exists(f[Listing[j]]) /\ dirs[j] = dirs[i]))
    IN  << <<>> >> \o [k \in 1..Len(idx) |-> dirs[idx[k]]]

WalkFiles(f, root) ==
    SelectSeq(Listing, LAMBDA p : isfile(f[p]) /\ DirName(p) = root)

(***************************************************************************)
(* find_template_files                                                     *)
(***************************************************************************)
\* Mutant: an excluded file is reported but not skipped.
find_template_files_no_skip(f, patterns) ==
    LET roots == WalkRoots(f)
    IN  Flatten([r \in 1..Len(roots) |->
            Flatten([k \in 1..Len(TEMPLATE_PATTERNS) |->
                SelectSeq(WalkFiles(f, roots[r]),
                    LAMBDA p : fnmatch(BaseName(p), TEMPLATE_PATTERNS[k]))])])

\* Lines 86-103: for each directory, for each inclusion pattern, for each
\* file name matching it, the relative path is appended unless excluded.
find_template_files(f, patterns) ==
    LET roots == WalkRoots(f)
    IN  Flatten([r \in 1..Len(roots) |->
            Flatten([k \in 1..Len(TEMPLATE_PATTERNS) |->
                SelectSeq(WalkFiles(f, roots[r]),
                    LAMBDA p : /\ fnmatch(BaseName(p), TEMPLATE_PATTERNS[k])
                               /\ ~is_excluded_file(p, patterns))])])

(***************************************************************************)
(* find_parent_files                                                       *)
(***************************************************************************)
\* parent_file = None
None ==
    <<>>

\* re.match(r'^(.+)\.template(\..+)$', t): the greedy (.+) takes the last
\* ".template." that has something before it and something after it.
rule1(t) ==
    LET I == {i \in 2..(Len(t) - 3) :
                 t[i] = "." /\ t[i + 1] = "template" /\ t[i + 2] = "."}
    IN  IF I = {}
        THEN None
        ELSE SubSeq(t, 1, Max(I) - 1) \o SubSeq(t, Max(I) + 2, Len(t))

\* re.match(r'^(.+)\.template$', t)
rule2(t) ==
    IF Len(t) >= 3 /\ t[Len(t) - 1] = "." /\ t[Len(t)] = "template"
    THEN SubSeq(t, 1, Len(t) - 2)
    ELSE None

\* re.match(r'^(.+)\.env\.template$', t)
rule3(t) ==
    IF /\ Len(t) >= 5
       /\ SubSeq(t, Len(t) - 3, Len(t)) = <<".", "env", ".", "template">>
    THEN SubSeq(t, 1, Len(t) - 4) \o <<".", "env">>
    ELSE None

\* Mutant: each rule accepts its derived path only when it is a regular file.
potential_parent_isfile(f, t) ==
    LET p1 == IF rule1(t) # None /\ isfile(KindOf(f, rule1(t)))
              THEN rule1(t) ELSE None
        p2 == IF p1 # None THEN p1
              ELSE IF rule2(t) # None /\ isfile(KindOf(f, rule2(t)))
                   THEN rule2(t) ELSE None
    IN  IF p2 # None THEN p2
        ELSE IF rule3(t) # None /\ isfile(KindOf(f, rule3(t)))
             THEN rule3(t) ELSE None

\* Lines 113-136: parent_file after the three patterns; a rule is tried
\* only while parent_file is still unset, and sets it when its derived path
\* exists.
potential_parent(f, t) ==
    LET p1 == IF rule1(t) # None /\ exists(KindOf(f, rule1(t)))
              THEN rule1(t) ELSE None
        p2 == IF p1 # None THEN p1
              ELSE IF rule2(t) # None /\ exists(KindOf(f, rule2(t)))
                   THEN rule2(t) ELSE None
    IN  IF p2 # None THEN p2
        ELSE IF rule3(t) # None /\ exists(KindOf(f, rule3(t)))
             THEN rule3(t) ELSE None

\* A dict built by assigning pairs[i][1] -> pairs[i][2] in order: each key
\* keeps the position of its first assignment and the value of its last.
AsDict(pairs) ==
    LET idx == SelectSeq([i \in 1..Len(pairs) |-> i],
                   LAMBDA i : \A j \in 1..(i - 1) : pairs[j][1] # pairs[i][1])
        last(key) == Max({j \in 1..Len(pairs) : pairs[j][1] = key})
    IN  [k \in 1..Len(idx) |->
            <<pairs[idx[k]][1], pairs[last(pairs[idx[k]][1])][2]>>]

Keys(dict) ==
    {dict[i][1] : i \in DOMAIN dict}

\* dict[key]
Lookup(dict, key) ==
    dict[CHOOSE i \in DOMAIN dict : dict[i][1] = key][2]

\* Mutant: the check of lines 139-145 that the parent is a file is missing.
find_parent_files_no_isfile(f, tfs) ==
    LET matched == SelectSeq(tfs, LAMBDA t : potential_parent(f, t) # None)
    IN  AsDict([i \in 1..Len(matched) |->
                   <<matched[i], potential_parent(f, matched[i])>>])

\* Lines 111-150.
find_parent_files(f, tfs) ==
    LET matched == SelectSeq(tfs,
                       LAMBDA t : /\ potential_parent(f, t) # None
                                  /\ isfile(KindOf(f, potential_parent(f, t))))
    IN  AsDict([i \in 1..Len(matched) |->
                   <<matched[i], potential_parent(f, matched[i])>>])

(***************************************************************************)
(* analyze_all_files and generate_report                                   *)
(***************************************************************************)
\* Lines 239-255: one comparison per mapping; only non-empty results are kept.
analyze_all_files(f, pfs) ==
    LET res == [i \in 1..Len(pfs) |->
                   <<pfs[i][1],
                     find_missing_lines(KindOf(f, pfs[i][1]), KindOf(f, pfs[i][2]),
                                        Content(pfs[i][1]), Content(pfs[i][2]))>>]
    IN  SelectSeq(res, LAMBDA e : e[2] # <<>>)

\* Lines 259-297: the three counts, then the summary or one section per
\* entry of differences (the timestamp and base directory lines are left out).
generate_report(tfs, pfs, diffs) ==
    [ found    |-> Len(tfs),
      matched  |-> Len(pfs),
      missing  |-> Len(diffs),
      sections |-> [i \in 1..Len(diffs) |->
                       [ template |-> diffs[i][1],
                         parent   |-> Lookup(pfs, diffs[i][1]),
                         lines    |-> diffs[i][2] ]] ]

(***************************************************************************)
(* Specification of the process: main() is invoked up to MaxRuns times     *)
(* over a tree holding at most MaxEntries of the paths of Listing.         *)
(***************************************************************************)
MaxRuns ==
    2

MaxEntries ==
    4

\* args.exclude of one invocation: no --exclude, or --exclude '*.env.template'
ExcludeArgs ==
    { <<>>, << <<"*", ".", "env", ".", "template">> >> }

Trees ==
    {f \in [Paths -> FileKinds] :
        Cardinality({p \in Paths : f[p] # "absent"}) <= MaxEntries}

Init ==
    /\ pc = "idle"
    /\ fs \in Trees
    /\ EXCLUDE_PATTERNS = DefaultExcludePatterns
    /\ args_exclude = <<>>
    /\ runs = 0
    /\ template_files = <<>>
    /\ parent_files = <<>>
    /\ differences = <<>>
    /\ report = <<>>
    /\ NoNormalize
    /\ NoDiff

normVars ==
    <<line, once, twice>>

\* main(), lines 313-320: the --exclude patterns are appended to the
\* module-level list, then a fresh TemplateChecker is constructed.
Main(exclude) ==
    /\ pc \in {"idle", "reported"}
    /\ runs < MaxRuns
    /\ runs' = runs + 1
    /\ args_exclude' = exclude
    /\ EXCLUDE_PATTERNS' = EXCLUDE_PATTERNS \o exclude
    /\ template_files' = <<>>
    /\ parent_files' = <<>>
    /\ differences' = <<>>
    /\ report' = <<>>
    /\ pc' = "constructed"
    /\ UNCHANGED <<fs, normVars, diffVars>>

FindTemplateFiles ==
    /\ pc = "constructed"
    /\ template_files' = find_template_files(fs, EXCLUDE_PATTERNS)
    /\ pc' = "found"
    /\ UNCHANGED <<fs, EXCLUDE_PATTERNS, args_exclude, runs, parent_files,
                   differences, report, normVars, diffVars>>

FindParentFiles ==
    /\ pc = "found"
    /\ parent_files' = find_parent_files(fs, template_files)
    /\ pc' = "matched"
    /\ UNCHANGED <<fs, EXCLUDE_PATTERNS, args_exclude, runs, template_files,
                   differences, report, normVars, diffVars>>

AnalyzeAllFiles ==
    /\ pc = "matched"
    /\ differences' = analyze_all_files(fs, parent_files)
    /\ pc' = "analyzed"
    /\ UNCHANGED <<fs, EXCLUDE_PATTERNS, args_exclude, runs, template_files,
                   parent_files, report, normVars, diffVars>>

\* generate_report reads self.parent_files[template_file] for every entry of
\* differences: a key without a mapping raises KeyError out of run().
GenerateReport ==
    /\ pc = "analyzed"
    /\ IF Keys(differences) \subseteq Keys(parent_files)
       THEN /\ report' = generate_report(template_files, parent_files, differences)
            /\ pc' = "reported"
       ELSE /\ report' = report
            /\ pc' = "raised"
    /\ UNCHANGED <<fs, EXCLUDE_PATTERNS, args_exclude, runs, template_files,
                   parent_files, differences, normVars, diffVars>>

\* run(), lines 301-304: the four stages, one after the other.
Run ==
    \/ FindTemplateFiles
    \/ FindParentFiles
    \/ AnalyzeAllFiles
    \/ GenerateReport

Next ==
    \/ \E exclude \in ExcludeArgs : Main(exclude)
    \/ Run

Spec ==
    Init /\ [][Next]_vars

(***************************************************************************)
(* Properties                                                              *)
(***************************************************************************)
Min(S) ==
    CHOOSE m \in S : \A x \in S : m <= x

\* The three derived paths of a template, in rule order.
Candidates(t) ==
    <<rule1(t), rule2(t), rule3(t)>>

AfterDiscovery ==
    pc \in {"found", "matched", "analyzed", "reported"}

AfterResolution ==
    pc \in {"matched", "analyzed", "reported"}

AfterAnalysis ==
    pc \in {"analyzed", "reported"}

\* C1: for a readable pair, find_missing_lines returns, in parent order, the
\* right-trimmed original text of exactly those parent lines that are
\* non-blank, non-comment and whose normalised form is not among the
\* normalised non-blank non-comment template lines.
C1_ReportsFlaggedOriginals ==
    (pc = "compared" /\ Readable) =>
        LET template_set == {normalize_line(l) :
                                l \in {x \in Range(template_lines) : IsStructural(x)}}
            flagged == SelectSeq(parent_lines,
                           LAMBDA l : /\ IsStructural(l)
                                      /\ normalize_line(l) \notin template_set)
        IN  missing_lines = [i \in 1..Len(flagged) |-> rstrip(flagged[i])]

\* C2 as claimed: each discovered template is mapped to the path derived by
\* the first rule whose derived path is a regular file (so a directory at an
\* earlier rule's path lets a later rule match), and is unmapped when there
\* is no such rule.
C2_FirstRegularFileRuleWins ==
    AfterResolution =>
        \A t \in Range(template_files) :
            LET K == {k \in 1..3 : /\ Candidates(t)[k] # None
                                   /\ isfile(KindOf(fs, Candidates(t)[k]))}
            IN  IF K = {}
                THEN t \notin Keys(parent_files)
                ELSE /\ t \in Keys(parent_files)
                     /\ Lookup(parent_files, t) = Candidates(t)[Min(K)]

\* C2 as amended: the rules are tried in order and the first rule whose
\* derived path exists (file or directory) is the only one selected; the
\* template is mapped to that path when it is a regular file and is left
\* unmapped when it is not, or when no rule derives an existing path.
C2_FirstExistingRuleWins ==
    AfterResolution =>
        \A t \in Range(template_files) :
            LET K == {k \in 1..3 : /\ Candidates(t)[k] # None
                                   /\ exists(KindOf(fs, Candidates(t)[k]))}
            IN  IF K # {} /\ isfile(KindOf(fs, Candidates(t)[Min(K)]))
                THEN /\ t \in Keys(parent_files)
                     /\ Lookup(parent_files, t) = Candidates(t)[Min(K)]
                ELSE t \notin Keys(parent_files)

\* Rule 1 of app.template.json.template derives a directory, rule 2 derives
\* a regular file, and the template is left unmapped.
C2_Witness ==
    /\ pc = "matched"
    /\ fs[AppTemplateJsonTemplate] = "file"
    /\ fs[AppJsonTemplate] = "dir"
    /\ fs[AppTemplateJson] = "file"
    /\ AppTemplateJsonTemplate \in Range(template_files)
    /\ AppTemplateJsonTemplate \notin Keys(parent_files)

\* C3: during every run the exclusion patterns in force are exactly the
\* defaults followed by that run's own additional globs.
C3_ExclusionsArePerRun ==
    pc # "idle" => EXCLUDE_PATTERNS = DefaultExcludePatterns \o args_exclude

\* C4: a file found by the walk whose relative path matches an exclusion
\* pattern is absent from the discovered list, whatever inclusion patterns
\* its name matches.
C4_ExclusionDominates ==
    AfterDiscovery =>
        \A p \in Paths :
            (/\ isfile(fs[p])
             /\ \E i \in DOMAIN EXCLUDE_PATTERNS : fnmatch(p, EXCLUDE_PATTERNS[i]))
            => p \notin Range(template_files)

\* app.env.template matches two inclusion patterns, is excluded by this
\* run's --exclude glob, and is not in the list; another template is.
C4_Witness ==
    /\ pc = "found"
    /\ fs[AppEnvTemplate] = "file"
    /\ fnmatch(BaseName(AppEnvTemplate), TEMPLATE_PATTERNS[2])
    /\ fnmatch(BaseName(AppEnvTemplate), TEMPLATE_PATTERNS[3])
    /\ is_excluded_file(AppEnvTemplate, args_exclude)
    /\ AppEnvTemplate \notin Range(template_files)
    /\ AppTemplateJson \in Range(template_files)

\* C5: blank lines and comment lines are inert: the result is the one
\* obtained with those lines removed from both files, and no blank or
\* comment line is ever reported.
C5_BlankAndCommentLinesInert ==
    (pc = "compared" /\ Readable) =>
        /\ missing_lines = compare_lines(SelectSeq(template_lines, IsStructural),
                                         SelectSeq(parent_lines, IsStructural))
        /\ \A i \in DOMAIN missing_lines : IsStructural(missing_lines[i])

\* C6: a line whose trimmed form is KEY=value, KEY a non-empty run of
\* [A-Z0-9_], normalises to KEY= followed by the placeholder of KEY's suffix
\* (<SECRET>, <KEY>, <TOKEN>, <PASSWORD>, else <VALUE>) and nothing else.
C6_EnvAssignmentPlaceholder ==
    pc # "raw" =>
        LET t == strip(line)
        IN  \A k \in 1..(Len(t) - 1) :
                (/\ \A i \in 1..k : t[i] \in EnvKeyChar
                 /\ t[k + 1] = "=")
                => once = SubSeq(t, 1, k + 1) \o
                          << CASE t[k] = "_SECRET"   -> "<SECRET>"
                               [] t[k] = "_KEY"      -> "<KEY>"
                               [] t[k] = "_TOKEN"    -> "<TOKEN>"
                               [] t[k] = "_PASSWORD" -> "<PASSWORD>"
                               [] OTHER              -> "<VALUE>" >>

\* A _PASSWORD key whose value itself looks like a _KEY assignment.
C6_Witness ==
    /\ pc = "once"
    /\ line = <<" ", "_PASSWORD", "=", "_KEY", "=">>
    /\ once = <<"_PASSWORD", "=", "<PASSWORD>">>

C8_RunAlwaysReports ==
    /\ [][pc' = CASE pc = "constructed" -> "found"
                  [] pc = "found"       -> "matched"
                  [] pc = "matched"     -> "analyzed"
                  [] pc = "analyzed"    -> "reported"
                  [] OTHER              -> "constructed"]_vars
    /\ [](pc # "raised")
    /\ [](AfterResolution =>
           /\ \A t \in Range(template_files) :
                  LET K == {k \in 1..3 : /\ Candidates(t)[k] # None
                                         /\ exists(KindOf(fs, Candidates(t)[k]))}
                  IN  (K = {} \/ ~isfile(KindOf(fs, Candidates(t)[Min(K)])))
                      => t \notin Keys(parent_files) \cup Keys(differences)
           /\ Keys(parent_files) \subseteq Range(template_files)
           /\ \A i \in DOMAIN parent_files :
                  KindOf(fs, parent_files[i][2]) \in {"file", "locked"})
    /\ [](AfterAnalysis =>
           /\ Keys(differences) \subseteq Keys(parent_files)
           /\ \A i \in DOMAIN parent_files :
                  LET t == parent_files[i][1]
                      p == parent_files[i][2]
                      template_set == {normalize_line(l) :
                                          l \in {x \in Range(Content(t)) : IsStructural(x)}}
                  IN  IF fs[t] = "locked" \/ fs[p] = "locked"
                      THEN t \notin Keys(differences)
                      ELSE t \in Keys(differences) <=>
                               \E l \in Range(Content(p)) :
                                   /\ IsStructural(l)
                                   /\ normalize_line(l) \notin template_set)
    /\ [](pc = "reported" =>
           /\ report # <<>>
           /\ report.matched = Len(parent_files)
           /\ report.missing = Len(differences))

\* The first pair has an unreadable template and contributes nothing, the
\* second pair is analysed and reported, and app.env.template, which has no
\* existing derived path, has no mapping.
C8_Witness ==
    /\ pc = "reported"
    /\ fs[AppTemplateJsonTemplate] = "locked"
    /\ fs[AppEnv] = "absent"
    /\ AppEnvTemplate \in Range(template_files)
    /\ Len(parent_files) = 2
    /\ parent_files[1] = <<AppTemplateJsonTemplate, AppJsonTemplate>>
    /\ parent_files[2] = <<AppJsonTemplate, AppJson>>
    /\ Keys(differences) = {AppJsonTemplate}
    /\ report.missing = 1

\* C9: when the normalised non-blank non-comment lines of parent and
\* template form the same set, nothing is reported missing, whatever the
\* order and the repetitions.
C9_SameNormalizedSetNothingMissing ==
    (/\ pc = "compared"
     /\ Readable
     /\ Range(NormalizedLines(parent_lines)) = Range(NormalizedLines(template_lines)))
    => missing_lines = <<>>

\* Same set of normalised lines, in another order, one of them repeated and
\* carrying another value.
C9_Witness ==
    /\ pc = "compared"
    /\ Readable
    /\ template_lines = << <<"A", "=", "1">>, <<"B", "=", "1">> >>
    /\ parent_lines = << <<"B", "=", "1">>, <<" ", "A", "=", "a", " ">>, <<"B", "=", "1">> >>
    /\ missing_lines = <<>>

\* C10: every non-excluded file whose name matches an inclusion pattern is
\* in the discovered list exactly once, and the report's "Template files
\* found" is the number of distinct template files.
C10_EachTemplateListedOnce ==
    /\ AfterDiscovery =>
           \A p \in Paths :
               (/\ isfile(fs[p])
                /\ ~is_excluded_file(p, EXCLUDE_PATTERNS)
                /\ \E k \in DOMAIN TEMPLATE_PATTERNS :
                       fnmatch(BaseName(p), TEMPLATE_PATTERNS[k]))
               => Cardinality({i \in DOMAIN template_files : template_files[i] = p}) = 1
    /\ pc = "reported" => report.found = Cardinality(Range(template_files))

====
